---- MODULE Spec2Model ----
(***************************************************************************)
(* A model of three collaborators of checkov:                              *)
(*   - the severity table (common/bridgecrew/severities.py),               *)
(*   - RepoConfigIntegration, which resolves path exclusions and the       *)
(*     enforcement rule from the platform's run configuration,             *)
(*   - OpenAi, which asks a completion API for guidelines in batches.      *)
(* Each collaborator has its own specification; the variables of the       *)
(* others stay at their initial values.                                    *)
(***************************************************************************)
EXTENDS Integers, Sequences, FiniteSets, TLC

VARIABLES
    \* ---- severities.py / CodeCategoryConfiguration
    soft_fail_threshold,        \* key of the Severities table
    hard_fail_threshold,        \* key of the Severities table
    skip_check_threshold,       \* last result of get_skip_check_threshold, or None
    global_soft_fail,           \* last result of is_global_soft_fail, or None
    \* ---- RepoConfigIntegration
    customer_run_config_response,   \* bc_integration.customer_run_config_response
    matching,                       \* the names bc_integration.repo_matches accepts
    skip_paths,
    enforcement_rule,
    code_category_configs,
    integration_feature_failures,
    pc,                             \* position inside pre_scan
    \* ---- OpenAi (class attributes and the openai module)
    instance,               \* OpenAi._instance: 0 for None, else the object's identity
    allocated,              \* how many OpenAi objects super().__new__ has created
    returned,               \* what the latest OpenAi(...) call returned, 0 before any
    last_call,              \* the arguments of the latest OpenAi(...) call, or None
    should_run,             \* OpenAi._should_run (FALSE while not set)
    api_type,               \* OpenAi._api_type ("" while not set)
    openai_api_key,         \* openai.api_key ("" for None)
    environ,                \* which of the Azure variables os.getenv finds
    \* ---- OpenAi.enhance_records and the coroutines it runs
    max_findings,           \* OPENAI_MAX_FINDINGS
    records,                \* the records handed to enhance_records
    details,                \* record.details of each record, None while not written
    enhance_records,        \* _generate_guidelines' prioritized list (indices into records)
    batches,                \* _generate_guidelines' batches (indices into records)
    batch_no,               \* how many batches the for loop has gathered
    task,                   \* the _chat_complete coroutine of each record
    warning,                \* the counts _print_warning printed, or None
    ai_pc                   \* position of enhance_records

sevVars  == <<soft_fail_threshold, hard_fail_threshold, skip_check_threshold, global_soft_fail>>
repoVars == <<customer_run_config_response, matching, skip_paths, enforcement_rule,
              code_category_configs, integration_feature_failures, pc>>
ctorVars == <<instance, allocated, returned, last_call, should_run, api_type, openai_api_key, environ>>
runVars  == <<max_findings, records, details, enhance_records, batches, batch_no, task, warning, ai_pc>>
aiVars   == <<ctorVars, runVars>>
vars == <<sevVars, repoVars, aiVars>>

None == [none |-> TRUE]

(***************************************************************************)
(* severities.py                                                           *)
(***************************************************************************)

\* The Severities dict in insertion order: key -> Severity(name, level).
SeveritiesTable ==
    << [key |-> "NONE",      name |-> "NONE",     level |-> 0],
       [key |-> "LOW",       name |-> "LOW",      level |-> 1],
       [key |-> "MEDIUM",    name |-> "MEDIUM",   level |-> 2],
       [key |-> "MODERATE",  name |-> "MEDIUM",   level |-> 2],
       [key |-> "HIGH",      name |-> "HIGH",     level |-> 3],
       [key |-> "IMPORTANT", name |-> "HIGH",     level |-> 3],
       [key |-> "CRITICAL",  name |-> "CRITICAL", level |-> 4],
       [key |-> "OFF",       name |-> "OFF",      level |-> 999] >>

SeverityKeys == { SeveritiesTable[i].key : i \in DOMAIN SeveritiesTable }

\* Severities[key]; the caller checks key \in SeverityKeys (a KeyError otherwise).
Severities(key) ==
    LET i == CHOOSE j \in DOMAIN SeveritiesTable : SeveritiesTable[j].key = key
    IN  SeveritiesTable[i]

\* sorted(seq, key=lambda s: s.level): a stable insertion sort.
RECURSIVE InsertByLevel(_, _)
InsertByLevel(sorted, s) ==
    IF sorted = <<>> THEN <<s>>
    ELSE IF sorted[Len(sorted)].level <= s.level THEN Append(sorted, s)
    ELSE Append(InsertByLevel(SubSeq(sorted, 1, Len(sorted) - 1), s), sorted[Len(sorted)])

RECURSIVE SortedByLevel(_)
SortedByLevel(seq) ==
    IF seq = <<>> THEN <<>>
    ELSE InsertByLevel(SortedByLevel(SubSeq(seq, 1, Len(seq) - 1)), seq[Len(seq)])

\* A mutated comparison: "at or below" instead of "below".
IsBelowLevelOrEqual(severity, level) == severity.level <= level

\* severity.level < level
IsBelowLevel(severity, level) == severity.level < level

\* The loop of get_highest_severity_below_level over the first n sorted values.
RECURSIVE HighestBelowLoop(_, _, _)
HighestBelowLoop(sorted, n, level) ==
    IF n = 0 THEN None
    ELSE LET last     == HighestBelowLoop(sorted, n - 1, level)
             severity == sorted[n]
         IN  IF IsBelowLevel(severity, level) /\ (last = None \/ severity.level > last.level)
             THEN severity
             ELSE last

get_highest_severity_below_level(level) ==
    LET sorted == SortedByLevel(SeveritiesTable)
    IN  HighestBelowLoop(sorted, Len(sorted), level)

\* CodeCategoryConfiguration.get_skip_check_threshold
get_skip_check_threshold(soft) ==
    LET severity == get_highest_severity_below_level(soft.level)
    IN  IF severity = None THEN Severities("NONE") ELSE severity

\* CodeCategoryConfiguration.is_global_soft_fail: Severity defines no __eq__, so the
\* comparison is by identity with the one object stored under the key OFF.
is_global_soft_fail(hardKey) == hardKey = "OFF"

InitSeverity ==
    /\ soft_fail_threshold \in SeverityKeys
    /\ hard_fail_threshold \in SeverityKeys
    /\ skip_check_threshold = None
    /\ global_soft_fail = None

IdleSeverity ==
    /\ soft_fail_threshold = "NONE"
    /\ hard_fail_threshold = "NONE"
    /\ skip_check_threshold = None
    /\ global_soft_fail = None

GetSkipCheckThreshold ==
    /\ skip_check_threshold' = get_skip_check_threshold(Severities(soft_fail_threshold))
    /\ UNCHANGED <<soft_fail_threshold, hard_fail_threshold, global_soft_fail>>
    /\ UNCHANGED <<repoVars, aiVars>>

IsGlobalSoftFail ==
    /\ global_soft_fail' = [value |-> is_global_soft_fail(hard_fail_threshold)]
    /\ UNCHANGED <<soft_fail_threshold, hard_fail_threshold, skip_check_threshold>>
    /\ UNCHANGED <<repoVars, aiVars>>

\* The OpenAi class before any construction, and no records.
IdleAi ==
    /\ instance = 0
    /\ allocated = 0
    /\ returned = 0
    /\ last_call = None
    /\ should_run = FALSE
    /\ api_type = ""
    /\ openai_api_key = ""
    /\ environ = [endpoint |-> FALSE, deployment |-> FALSE]
    /\ max_findings = 0
    /\ records = <<>>
    /\ details = <<>>
    /\ enhance_records = <<>>
    /\ batches = <<>>
    /\ batch_no = 0
    /\ task = <<>>
    /\ warning = None
    /\ ai_pc = "idle"

IdleRepo ==
    /\ customer_run_config_response = None
    /\ matching = {}
    /\ skip_paths = {}
    /\ enforcement_rule = None
    /\ code_category_configs = {}
    /\ integration_feature_failures = FALSE
    /\ pc = "idle"

(***************************************************************************)
(* repo_config_integration.py                                              *)
(***************************************************************************)

\* Bounds of the payloads enumerated.
MaxSections == 2
MaxRules == 3

\* bc_integration.repo_id, and the repository names that occur in payloads.
RepoId == "org/repo"
RepoNames == {"org/repo", "acme_org/repo", "other/repo"}

\* The attribute values of CodeCategoryType, in the order of its __dict__.
CodeCategoryTypes == <<"IAC", "OPEN_SOURCE", "SECRETS", "IMAGES", "SUPPLY_CHAIN">>

\* bc_integration.repo_matches tells whether a name is one of the run's
\* repository: repo_id itself ("the VCS integration that matches the value of
\* --repo-id") and whichever other names it accepts (the CLI upload repo).
Matchers == { m \in SUBSET RepoNames : RepoId \in m }

repo_matches(repo_name) == repo_name \in matching

\* The truth value Python gives a str: the empty string is falsy.
Truthy(str) == str # ""

\* ---- payloads -----------------------------------------------------------

\* A section of vcsConfig.scannedFiles.sections; hasRule is FALSE when the
\* section lacks its 'rule' key.
SectionChoices ==
    { [repos |-> r, hasRule |-> TRUE, excludePaths |-> p] :
        r \in { <<"org/repo">>, <<"acme_org/repo">>, <<"other/repo", "org/repo">> },
        p \in { {"a/"}, {"b/", "c/"} } }
    \cup { [repos |-> <<"org/repo">>, hasRule |-> FALSE, excludePaths |-> {}] }

\* codeCategories of a rule, as the (key, value) pairs of the dict.
CcLenient == << [category |-> "IAC", softFailThreshold |-> "LOW", hardFailThreshold |-> "OFF"] >>
CcStrict  == << [category |-> "IAC", softFailThreshold |-> "MEDIUM", hardFailThreshold |-> "HIGH"],
                [category |-> "SECRETS", softFailThreshold |-> "MODERATE", hardFailThreshold |-> "CRITICAL"] >>
\* a severity name the Severities table does not hold
CcBroken  == << [category |-> "IAC", softFailThreshold |-> "HIGH", hardFailThreshold |-> "CRITICAL"],
                [category |-> "IMAGES", softFailThreshold |-> "SEVERE", hardFailThreshold |-> "OFF"] >>

Repositories(names) == [i \in DOMAIN names |-> [accountName |-> names[i]]]

RuleChoices ==
    { [mainRule |-> TRUE, repositories |-> <<>>, codeCategories |-> CcLenient] }
    \cup { [mainRule |-> FALSE, repositories |-> Repositories(r), codeCategories |-> c] :
            r \in { <<"org/repo">>, <<"acme_org/repo">>, <<"other/repo">>,
                    <<"acme_org/repo", "org/repo">> },
            c \in { CcStrict, CcBroken } }

SeqsUpTo(S, n) == UNION { [1..k -> S] : k \in 0..n }

SectionLists == SeqsUpTo(SectionChoices, MaxSections)

\* The platform marks at most one rule as the main rule.
RuleLists ==
    { rs \in SeqsUpTo(RuleChoices, MaxRules) :
        Cardinality({ i \in DOMAIN rs : rs[i].mainRule }) <= 1 }

FewSectionLists ==
    { <<>>,
      << [repos |-> <<"acme_org/repo">>, hasRule |-> TRUE, excludePaths |-> {"a/"}] >> }

FewRuleLists ==
    { << [mainRule |-> TRUE, repositories |-> <<>>, codeCategories |-> CcLenient] >>,
      << [mainRule |-> FALSE, repositories |-> Repositories(<<"org/repo">>), codeCategories |-> CcBroken] >> }

Payload(hasVcs, sections, hasRules, rules) ==
    [ hasVcsConfig |-> hasVcs, sections |-> sections,
      hasEnforcementRules |-> hasRules, rules |-> rules ]

\* customer_run_config_response: None, a response without one of its two keys,
\* or a response with both.
Payloads ==
    { None }
    \cup { Payload(FALSE, <<>>, TRUE, rs) : rs \in FewRuleLists }
    \cup { Payload(TRUE, ss, FALSE, <<>>) : ss \in FewSectionLists }
    \cup { Payload(TRUE, ss, TRUE, rs) : ss \in SectionLists, rs \in FewRuleLists }
    \cup { Payload(TRUE, ss, TRUE, rs) : ss \in FewSectionLists, rs \in RuleLists }

\* ---- _set_exclusion_paths ----------------------------------------------

\* any(repo for repo in repos if repo_matches(repo)): any() tests the names
\* themselves, which the filter lets through.
SectionMatches(section) ==
    \E i \in DOMAIN section.repos :
        repo_matches(section.repos[i]) /\ Truthy(section.repos[i])

\* A mutated update: the section's paths replace the set.
OverwritePaths(paths, section) == section.excludePaths

\* self.skip_paths.update(section['rule']['excludePaths'])
UpdatePaths(paths, section) == paths \cup section.excludePaths

\* The loop of _set_exclusion_paths over the first n sections; raised is TRUE
\* when a KeyError left the loop.
RECURSIVE ExclusionLoop(_, _, _)
ExclusionLoop(sections, n, paths) ==
    IF n = 0 THEN [paths |-> paths, raised |-> FALSE]
    ELSE LET prev    == ExclusionLoop(sections, n - 1, paths)
             section == sections[n]
         IN  IF prev.raised THEN prev
             ELSE IF ~SectionMatches(section) THEN prev
             ELSE IF ~section.hasRule THEN [paths |-> prev.paths, raised |-> TRUE]
             ELSE [paths |-> UpdatePaths(prev.paths, section), raised |-> FALSE]

\* ---- _set_enforcement_rules --------------------------------------------

\* any(repo for repo in rule['repositories'] if repo_matches(repo['accountName'])):
\* a repo is a non-empty dict, which is truthy.
RuleMatches(rule) ==
    \E i \in DOMAIN rule.repositories : repo_matches(rule.repositories[i].accountName)

\* The rule holds a repository that matches and is named exactly repo_id.
RuleExactlyMatches(rule) ==
    \E i \in DOMAIN rule.repositories :
        /\ repo_matches(rule.repositories[i].accountName)
        /\ rule.repositories[i].accountName = RepoId

\* The loop that sets exact_match_rule: the first matched rule that matches exactly.
RECURSIVE ExactMatchRule(_, _)
ExactMatchRule(matched_rules, n) ==
    IF n = 0 THEN None
    ELSE LET prev == ExactMatchRule(matched_rules, n - 1)
         IN  IF prev # None THEN prev
             ELSE IF RuleExactlyMatches(matched_rules[n]) THEN matched_rules[n]
             ELSE None

\* A mutated selection: the first matched rule, whatever matches exactly.
SelectFirstMatched(default_rule, matched_rules) ==
    IF Len(matched_rules) = 0 THEN default_rule ELSE matched_rules[1]

\* A mutated selection: the default rule unless several rules match.
SelectDefaultOnSingle(default_rule, matched_rules) ==
    IF Len(matched_rules) > 1
    THEN LET exact_match_rule == ExactMatchRule(matched_rules, Len(matched_rules))
         IN  IF exact_match_rule # None THEN exact_match_rule ELSE matched_rules[1]
    ELSE default_rule

\* The if / elif / else on len(matched_rules).
SelectRule(default_rule, matched_rules) ==
    IF Len(matched_rules) > 1
    THEN LET exact_match_rule == ExactMatchRule(matched_rules, Len(matched_rules))
         IN  IF exact_match_rule # None THEN exact_match_rule ELSE matched_rules[1]
    ELSE IF Len(matched_rules) = 0 THEN default_rule
    ELSE matched_rules[1]

HasCategory(code_category_config, type) ==
    \E i \in DOMAIN code_category_config : code_category_config[i].category = type

CategoryEntry(code_category_config, type) ==
    code_category_config[CHOOSE i \in DOMAIN code_category_config :
                            code_category_config[i].category = type]

\* _get_code_category_object raises a KeyError for a name outside the table.
CategoryRaises(code_category_config, type) ==
    /\ HasCategory(code_category_config, type)
    /\ LET e == CategoryEntry(code_category_config, type)
       IN  e.softFailThreshold \notin SeverityKeys \/ e.hardFailThreshold \notin SeverityKeys

get_code_category_object(code_category_config, type) ==
    LET e == CategoryEntry(code_category_config, type)
    IN  [ category |-> type,
          soft_fail_threshold |-> Severities(e.softFailThreshold),
          hard_fail_threshold |-> Severities(e.hardFailThreshold) ]

\* self.code_category_configs[code_category_type] = config
PutConfig(configs, config) ==
    { c \in configs : c.category # config.category } \cup { config }

\* The loop over the category types, its first n types done.
RECURSIVE CategoryLoop(_, _, _)
CategoryLoop(code_category_config, n, configs) ==
    IF n = 0 THEN [configs |-> configs, raised |-> FALSE]
    ELSE LET prev == CategoryLoop(code_category_config, n - 1, configs)
             type == CodeCategoryTypes[n]
         IN  IF prev.raised THEN prev
             ELSE IF ~HasCategory(code_category_config, type) THEN prev
             ELSE IF CategoryRaises(code_category_config, type)
                  THEN [configs |-> prev.configs, raised |-> TRUE]
             ELSE [configs |-> PutConfig(prev.configs, get_code_category_object(code_category_config, type)),
                   raised |-> FALSE]

HasMainRule(rules) == \E i \in DOMAIN rules : rules[i].mainRule

\* next(r for r in rules if r['mainRule'] is True)
DefaultRule(rules) ==
    rules[CHOOSE i \in DOMAIN rules :
            rules[i].mainRule /\ \A j \in 1..(i - 1) : ~rules[j].mainRule]

\* ---- pre_scan -----------------------------------------------------------

InitRepo ==
    /\ customer_run_config_response \in Payloads
    /\ matching \in Matchers
    /\ skip_paths = {}
    /\ enforcement_rule = None
    /\ code_category_configs = {}
    /\ integration_feature_failures = FALSE
    /\ pc = "pre_scan"

\* if not self.bc_integration.customer_run_config_response: ... return
PreScanEnter ==
    /\ pc = "pre_scan"
    /\ IF customer_run_config_response = None
       THEN /\ integration_feature_failures' = TRUE
            /\ pc' = "done"
       ELSE /\ pc' = "exclusion"
            /\ UNCHANGED integration_feature_failures
    /\ UNCHANGED <<customer_run_config_response, matching, skip_paths, enforcement_rule,
                   code_category_configs>>
    /\ UNCHANGED <<sevVars, aiVars>>

\* self._set_exclusion_paths(response['vcsConfig']), and the except clause of
\* pre_scan for what it raises.
SetExclusionPaths ==
    /\ pc = "exclusion"
    /\ LET response == customer_run_config_response
       IN  IF ~response.hasVcsConfig
           THEN /\ integration_feature_failures' = TRUE
                /\ pc' = "done"
                /\ UNCHANGED skip_paths
           ELSE LET r == ExclusionLoop(response.sections, Len(response.sections), skip_paths)
                IN  /\ skip_paths' = r.paths
                    /\ integration_feature_failures' = r.raised
                    /\ pc' = IF r.raised THEN "done" ELSE "enforcement"
    /\ UNCHANGED <<customer_run_config_response, matching, enforcement_rule,
                   code_category_configs>>
    /\ UNCHANGED <<sevVars, aiVars>>

\* self._set_enforcement_rules(response['enforcementRules']), and the except
\* clause of pre_scan for what it raises.
SetEnforcementRules ==
    /\ pc = "enforcement"
    /\ LET response == customer_run_config_response
           rules    == response.rules
       IN  IF ~response.hasEnforcementRules \/ ~HasMainRule(rules)
           THEN /\ integration_feature_failures' = TRUE
                /\ UNCHANGED <<enforcement_rule, code_category_configs>>
           ELSE LET default_rule  == DefaultRule(rules)
                    IsOther(r)    == r # default_rule
                    other_rules   == SelectSeq(rules, IsOther)
                    matched_rules == SelectSeq(other_rules, RuleMatches)
                    rule          == SelectRule(default_rule, matched_rules)
                    loop          == CategoryLoop(rule.codeCategories, Len(CodeCategoryTypes),
                                                  code_category_configs)
                IN  /\ enforcement_rule' = rule
                    /\ code_category_configs' = loop.configs
                    /\ integration_feature_failures' = loop.raised
    /\ pc' = "done"
    /\ UNCHANGED <<customer_run_config_response, matching, skip_paths>>
    /\ UNCHANGED <<sevVars, aiVars>>

NextRepo == PreScanEnter \/ SetExclusionPaths \/ SetEnforcementRules

InitRepoSpec == InitRepo /\ IdleSeverity /\ IdleAi

SpecRepo == InitRepoSpec /\ [][NextRepo]_vars

NextSeverity == GetSkipCheckThreshold \/ IsGlobalSoftFail

InitSeveritySpec == InitSeverity /\ IdleRepo /\ IdleAi

SpecSeverity == InitSeveritySpec /\ [][NextSeverity]_vars

(***************************************************************************)
(* output/ai.py                                                            *)
(***************************************************************************)

\* Bounds of the inputs enumerated.
MaxRecords == 25
MaxFewRecords == 2
MaxObjects == 2

\* int(os.getenv("CKV_OPENAI_MAX_FINDINGS", 5))
DefaultMaxFindings == 5
\* if len(enhance_records) > 20
BatchThreshold == 20
\* batch_size = 10
BatchSize == 10

\* RUNNER_DENY_LIST, and one runner type outside it.
RunnerDenyList == {"3d_policy", "sca_image", "sca_package", "secrets"}
RunnerTypes == {"terraform", "secrets"}

\* ---- OpenAi.__new__ -----------------------------------------------------

ApiKeys == {"", "sk-key"}               \* "" stands for None: both are falsy
ApiTypes == {"default", "Azure"}

\* str.lower() on the api types enumerated
Lower(str) == IF str = "Azure" THEN "azure" ELSE str

\* _validate_azure_env(value, name): value is not None
validate_azure_env(isSet) == isSet

\* A mutated test: every call is taken for the first.
AlwaysFirstCall(inst) == TRUE

\* cls._instance is None
IsFirstCall(inst) == inst = 0

\* The class attributes after __new__(cls, api_key, api_type).
NewResult(api_key, api_type_arg) ==
    IF IsFirstCall(instance)
    THEN LET key_given == api_key # ""
             lowered   == Lower(api_type_arg)
             \* CKV_AZURE_OPENAI_API_VERSION has a default, so it is never None
             azure_ok  == /\ validate_azure_env(environ.endpoint)
                          /\ validate_azure_env(TRUE)
                          /\ validate_azure_env(environ.deployment)
         IN  [ instance   |-> allocated + 1,
               allocated  |-> allocated + 1,
               should_run |-> IF lowered = "azure" THEN key_given /\ azure_ok ELSE key_given,
               api_type   |-> lowered,
               api_key    |-> api_key ]
    ELSE [ instance   |-> instance,
           allocated  |-> allocated,
           should_run |-> should_run,
           api_type   |-> api_type,
           api_key    |-> openai_api_key ]

\* OpenAi(api_key, api_type), called while no enhance_records is running.
New(api_key, api_type_arg) ==
    /\ ai_pc \in {"idle", "returned"}
    /\ LET r == NewResult(api_key, api_type_arg)
       IN  /\ r.allocated <= MaxObjects
           /\ instance' = r.instance
           /\ allocated' = r.allocated
           /\ should_run' = r.should_run
           /\ api_type' = r.api_type
           /\ openai_api_key' = r.api_key
           /\ returned' = r.instance
    /\ last_call' = [api_key |-> api_key, api_type |-> api_type_arg]
    /\ UNCHANGED <<environ, runVars, sevVars, repoVars>>

\* ---- records ------------------------------------------------------------

\* A Record: its severity (a key of Severities, "" for None), whether it has a
\* code_block, and what the completion API does when asked about it:
\*   "text"      a completion whose content parses to a non-empty list
\*   "empty"     a completion whose content is "", parsed to the empty list
\*   "api_error" acreate raises (a timeout, a provider error)
\*   "malformed" the response has no usage / choices / content: an AttributeError,
\*               KeyError or IndexError on lines 128-130
Rec(severity, code_block, response) ==
    [severity |-> severity, code_block |-> code_block, response |-> response]

CycleMixed ==
    << Rec("CRITICAL", TRUE, "text"),     Rec("", FALSE, "text"),
       Rec("LOW", TRUE, "api_error"),     Rec("HIGH", FALSE, "text"),
       Rec("MODERATE", TRUE, "malformed"), Rec("NONE", FALSE, "text"),
       Rec("LOW", TRUE, "empty"),         Rec("MEDIUM", FALSE, "text") >>

CycleTies ==
    << Rec("HIGH", TRUE, "text"), Rec("HIGH", FALSE, "text"), Rec("LOW", FALSE, "api_error"),
       Rec("HIGH", TRUE, "api_error"), Rec("LOW", FALSE, "text"), Rec("HIGH", FALSE, "text") >>

CycleRising ==
    << Rec("", TRUE, "text"), Rec("LOW", FALSE, "text"), Rec("IMPORTANT", FALSE, "api_error"),
       Rec("CRITICAL", TRUE, "malformed") >>

RecordCycles == {CycleMixed, CycleTies, CycleRising}

\* The list of n records that repeats a cycle.
RecordsOf(cycle, n) == [i \in 1..n |-> cycle[((i - 1) % Len(cycle)) + 1]]

RecordLists(maxLen) == { RecordsOf(c, n) : c \in RecordCycles, n \in 0..maxLen }

\* ---- _prioritize_findings ----------------------------------------------

\* record.severity.level if record.severity else 0
SortKey(record) == IF record.severity = "" THEN 0 ELSE Severities(record.severity).level

\* sorted(records, key=..., reverse=True) on indices: stable, highest level first.
RECURSIVE InsertDescending(_, _, _)
InsertDescending(recs, sorted, i) ==
    IF sorted = <<>> THEN <<i>>
    ELSE IF SortKey(recs[sorted[Len(sorted)]]) >= SortKey(recs[i]) THEN Append(sorted, i)
    ELSE Append(InsertDescending(recs, SubSeq(sorted, 1, Len(sorted) - 1), i), sorted[Len(sorted)])

RECURSIVE SortedDescending(_, _)
SortedDescending(recs, n) ==
    IF n = 0 THEN <<>> ELSE InsertDescending(recs, SortedDescending(recs, n - 1), n)

\* The indices of the records _prioritize_findings returns, in its order.
prioritize_findings(recs, maxFindings) ==
    IF 0 < maxFindings /\ maxFindings < Len(recs)
    THEN LET sorted_records == SortedDescending(recs, Len(recs))
         IN  SubSeq(sorted_records, Len(recs) - maxFindings + 1, Len(recs))
    ELSE [i \in 1..Len(recs) |-> i]

\* ---- _generate_guidelines ----------------------------------------------

\* records[i : i + batch_size]: the slice is taken from the records handed in,
\* not from enhance_records.
BatchSlice(recs, start) ==
    [k \in 1..(IF start + BatchSize <= Len(recs) THEN BatchSize
               ELSE IF start < Len(recs) THEN Len(recs) - start ELSE 0) |-> start + k]

\* range(0, len(enhance_records), batch_size)
BatchStarts(n) == [k \in 1..((n + BatchSize - 1) \div BatchSize) |-> (k - 1) * BatchSize]

MakeBatches(recs, enhance) ==
    IF Len(enhance) > BatchThreshold
    THEN LET starts == BatchStarts(Len(enhance))
         IN  [k \in DOMAIN starts |-> BatchSlice(recs, starts[k])]
    ELSE <<enhance>>

Elements(seq) == { seq[k] : k \in DOMAIN seq }

CurrentBatch == IF batch_no = 0 THEN <<>> ELSE batches[batch_no]

\* A mutated await: the loop goes on without waiting for the batch.
NotAwaited(tasks, batch) == TRUE

\* await asyncio.gather(...) resumes once every coroutine of the batch is done.
GatherDone(tasks, batch) == \A i \in Elements(batch) : tasks[i] = "done"

\* A mutated handler: only the API's own errors are caught.
CaughtApiErrorsOnly(response) == response = "api_error"

\* except Exception: everything the try block raises is caught.
Caught(response) == response \in {"api_error", "malformed"}

\* The text _parse_completion_response returns for the completion of a record.
Guideline(i) == [about |-> i]

\* enhance_records(runner_type, records), up to the first await of _generate_guidelines.
EnhanceRecords(runner_type) ==
    /\ instance # 0
    /\ ai_pc = "idle"
    /\ IF ~should_run \/ runner_type \in RunnerDenyList
       THEN UNCHANGED runVars
       ELSE LET enhance == prioritize_findings(records, max_findings)
                made    == MakeBatches(records, enhance)
            IN  /\ enhance_records' = enhance
                /\ batches' = made
                /\ warning' = [ records_count |-> Len(records),
                                enhance_records_count |-> Len(enhance),
                                batches_count |-> Len(made) ]
                /\ batch_no' = 0
                /\ ai_pc' = "running"
                /\ UNCHANGED <<max_findings, records, details, task>>
    /\ UNCHANGED <<ctorVars, sevVars, repoVars>>

\* for batch in batches: asyncio.gather(*[self._chat_complete(record) for record in batch])
\* creates the coroutines of the next batch and schedules them all.
Gather ==
    /\ ai_pc = "running"
    /\ batch_no < Len(batches)
    /\ GatherDone(task, CurrentBatch)
    /\ batch_no' = batch_no + 1
    /\ task' = [i \in DOMAIN task |->
                  IF i \in Elements(batches[batch_no + 1]) THEN "scheduled" ELSE task[i]]
    /\ UNCHANGED <<max_findings, records, details, enhance_records, batches, warning, ai_pc>>
    /\ UNCHANGED <<ctorVars, sevVars, repoVars>>

\* The event loop runs the scheduled coroutines in the order gather created them,
\* each up to its first await: one without code_block returns at once.
RunTask(i) ==
    /\ ai_pc = "running"
    /\ task[i] = "scheduled"
    /\ \A k \in 1..batch_no : \A a, b \in DOMAIN batches[k] :
          (batches[k][b] = i /\ a < b) => task[batches[k][a]] # "scheduled"
    /\ task' = [task EXCEPT ![i] = IF records[i].code_block THEN "waiting" ELSE "done"]
    /\ UNCHANGED <<max_findings, records, details, enhance_records, batches, batch_no, warning, ai_pc>>
    /\ UNCHANGED <<ctorVars, sevVars, repoVars>>

\* The completion call of record i ends: its details are written, or nothing
\* is (an empty parse, or an exception the handler catches).
Complete(i) ==
    /\ ai_pc = "running"
    /\ task[i] = "waiting"
    /\ task' = [task EXCEPT ![i] = "done"]
    /\ LET response == records[i].response
       IN  /\ details' = IF response = "text" THEN [details EXCEPT ![i] = Guideline(i)]
                         ELSE details
           /\ ai_pc' = IF response \in {"text", "empty"} \/ Caught(response)
                       THEN ai_pc ELSE "raised"
    /\ UNCHANGED <<max_findings, records, enhance_records, batches, batch_no, warning>>
    /\ UNCHANGED <<ctorVars, sevVars, repoVars>>

\* The for loop is over: _generate_guidelines, asyncio.run and enhance_records return.
Return ==
    /\ ai_pc = "running"
    /\ batch_no = Len(batches)
    /\ GatherDone(task, CurrentBatch)
    /\ ai_pc' = "returned"
    /\ UNCHANGED <<max_findings, records, details, enhance_records, batches, batch_no, task, warning>>
    /\ UNCHANGED <<ctorVars, sevVars, repoVars>>

NoRun(recs) ==
    /\ records = recs
    /\ details = [i \in DOMAIN recs |-> None]
    /\ task = [i \in DOMAIN recs |-> "new"]
    /\ enhance_records = <<>>
    /\ batches = <<>>
    /\ batch_no = 0
    /\ warning = None
    /\ ai_pc = "idle"

\* The class before its first construction, in any environment.
InitOpenAi ==
    /\ instance = 0
    /\ allocated = 0
    /\ returned = 0
    /\ last_call = None
    /\ should_run = FALSE
    /\ api_type = ""
    /\ openai_api_key = ""
    /\ environ \in [endpoint : BOOLEAN, deployment : BOOLEAN]
    /\ max_findings \in {0, DefaultMaxFindings}
    /\ \E recs \in RecordLists(MaxFewRecords) : NoRun(recs)

InitOpenAiSpec == InitOpenAi /\ IdleSeverity /\ IdleRepo

NextOpenAi ==
    \/ \E k \in ApiKeys, t \in ApiTypes : New(k, t)
    \/ \E r \in RunnerTypes : EnhanceRecords(r)
    \/ Gather
    \/ \E i \in DOMAIN records : RunTask(i)
    \/ \E i \in DOMAIN records : Complete(i)
    \/ Return

SpecOpenAi == InitOpenAiSpec /\ [][NextOpenAi]_vars

\* An enabled enricher, constructed with an API key, and the records of one report.
InitGuidelines ==
    /\ instance = 1
    /\ allocated = 1
    /\ returned = 1
    /\ last_call = [api_key |-> "sk-key", api_type |-> "default"]
    /\ should_run = TRUE
    /\ api_type = "default"
    /\ openai_api_key = "sk-key"
    /\ environ = [endpoint |-> FALSE, deployment |-> FALSE]
    /\ max_findings \in {0, 2, DefaultMaxFindings, BatchThreshold + 1}
    /\ \E recs \in RecordLists(MaxRecords) : NoRun(recs)

InitGuidelinesSpec == InitGuidelines /\ IdleSeverity /\ IdleRepo

NextGuidelines ==
    \/ \E r \in RunnerTypes : EnhanceRecords(r)
    \/ Gather
    \/ \E i \in DOMAIN records : RunTask(i)
    \/ \E i \in DOMAIN records : Complete(i)
    \/ Return

SpecGuidelines == InitGuidelinesSpec /\ [][NextGuidelines]_vars

(***************************************************************************)
(* Properties of RepoConfigIntegration                                     *)
(***************************************************************************)

Min(S) == CHOOSE x \in S : \A y \in S : x <= y
Max(S) == CHOOSE x \in S : \A y \in S : y <= x

PayloadRules ==
    IF customer_run_config_response = None THEN <<>> ELSE customer_run_config_response.rules

PayloadSections ==
    IF customer_run_config_response = None THEN <<>> ELSE customer_run_config_response.sections

\* The rules not flagged mainRule that list a repository repo_matches accepts.
NonDefaultMatching ==
    { i \in DOMAIN PayloadRules :
        /\ ~PayloadRules[i].mainRule
        /\ \E j \in DOMAIN PayloadRules[i].repositories :
              PayloadRules[i].repositories[j].accountName \in matching }

ListsRepoId(rule) ==
    \E j \in DOMAIN rule.repositories : rule.repositories[j].accountName = RepoId

\* C1: with two or more matching non-default rules, the only one of them that
\* lists a repository named repo_id is selected, whatever the order of the rules,
\* and the first matching rule in payload order is selected when none lists one.
C1_ExactMatchSelected ==
    (enforcement_rule # None /\ Cardinality(NonDefaultMatching) >= 2) =>
        LET exact == { i \in NonDefaultMatching : ListsRepoId(PayloadRules[i]) }
        IN  /\ Cardinality(exact) = 1 => \A i \in exact : enforcement_rule = PayloadRules[i]
            /\ exact = {} => enforcement_rule = PayloadRules[Min(NonDefaultMatching)]

\* Several rules match, and the one that matches exactly is not the first of them.
C1_Witness ==
    /\ enforcement_rule # None
    /\ Cardinality(NonDefaultMatching) >= 2
    /\ \E i \in NonDefaultMatching :
          /\ i # Min(NonDefaultMatching)
          /\ { k \in NonDefaultMatching : ListsRepoId(PayloadRules[k]) } = {i}
          /\ enforcement_rule = PayloadRules[i]
          /\ enforcement_rule # PayloadRules[Min(NonDefaultMatching)]

\* C2: when pre_scan ends without a failure and no non-default rule matches, the
\* rule flagged mainRule is selected; a selected rule is never the default rule
\* when a non-default rule matches.
C2_DefaultRuleFallback ==
    /\ (pc = "done" /\ ~integration_feature_failures /\ NonDefaultMatching = {}) =>
          /\ enforcement_rule # None
          /\ enforcement_rule.mainRule
          /\ \E i \in DOMAIN PayloadRules : PayloadRules[i] = enforcement_rule
    /\ (enforcement_rule # None /\ NonDefaultMatching # {}) =>
          /\ ~enforcement_rule.mainRule
          /\ \E i \in NonDefaultMatching : PayloadRules[i] = enforcement_rule

\* pre_scan ended well with non-default rules in the payload, none of them matching.
C2_Witness ==
    /\ pc = "done"
    /\ ~integration_feature_failures
    /\ NonDefaultMatching = {}
    /\ \E i \in DOMAIN PayloadRules : ~PayloadRules[i].mainRule
    /\ enforcement_rule # None
    /\ enforcement_rule.mainRule

\* The sections that list a repository repo_matches accepts.
MatchingSections ==
    { i \in DOMAIN PayloadSections :
        \E j \in DOMAIN PayloadSections[i].repos : PayloadSections[i].repos[j] \in matching }

\* C3: once _set_exclusion_paths has returned, skip_paths (empty before) is the
\* union of the excludePaths of the sections that list an accepted repository.
C3_ExclusionPathsUnion ==
    pc = "enforcement" =>
        skip_paths = UNION { PayloadSections[i].excludePaths : i \in MatchingSections }

\* Two matching sections with different paths, all of them in skip_paths.
C3_Witness ==
    /\ pc = "enforcement"
    /\ \E i, j \in MatchingSections :
          /\ PayloadSections[i].excludePaths # PayloadSections[j].excludePaths
          /\ PayloadSections[i].excludePaths \cup PayloadSections[j].excludePaths \subseteq skip_paths

\* C4: whenever pre_scan has recorded a failure, none of the settings is applied.
C4_FailureLeavesNoSettings ==
    integration_feature_failures =>
        /\ skip_paths = {}
        /\ enforcement_rule = None
        /\ code_category_configs = {}

(***************************************************************************)
(* Properties of OpenAi                                                    *)
(***************************************************************************)

\* The records _generate_guidelines has created a _chat_complete coroutine for.
Submitted == UNION { Elements(batches[k]) : k \in 1..batch_no }

BatchOf(k) == Elements(batches[k])

RECURSIVE SumOfSizes(_, _)
SumOfSizes(bs, n) == IF n = 0 THEN 0 ELSE SumOfSizes(bs, n - 1) + Len(bs[n])

\* C6: with a positive maximum below the number of records, exactly that many
\* records are handed to _chat_complete, and no record left out has a level
\* strictly below the level of one handed in.
C6_LowestSeveritySubmitted ==
    (ai_pc = "returned" /\ 0 < max_findings /\ max_findings < Len(records)) =>
        /\ Cardinality(Submitted) = max_findings
        /\ \A i \in Submitted : \A j \in (DOMAIN records) \ Submitted :
              SortKey(records[j]) >= SortKey(records[i])

\* C7: a request that fails leaves its record's details unset and raises nothing
\* out of enhance_records; its siblings can still complete, and a successful one
\* writes the details of its own record; details are only ever written by the
\* record's own successful request.
C7_FailureIsolated ==
    /\ ai_pc # "raised"
    /\ \A i \in DOMAIN records :
          /\ (task[i] = "done" /\ records[i].response \in {"api_error", "malformed"})
                => details[i] = None
          /\ (task[i] = "done" /\ records[i].code_block /\ records[i].response = "text")
                => details[i] = Guideline(i)
          /\ task[i] = "waiting" => ai_pc = "running"
          /\ details[i] # None =>
                (details[i] = Guideline(i) /\ task[i] = "done" /\ records[i].response = "text")
    /\ ai_pc = "returned" => \A i \in Submitted : task[i] = "done"

\* Two requests of one batch are over: one failed and left no details, the other
\* wrote its own.
C7_Witness ==
    /\ ai_pc = "returned"
    /\ \E k \in DOMAIN batches : \E i, j \in BatchOf(k) :
          /\ records[i].code_block /\ records[i].response = "malformed"
          /\ task[i] = "done" /\ details[i] = None
          /\ records[j].code_block /\ records[j].response = "text"
          /\ task[j] = "done" /\ details[j] = Guideline(j)

\* C8: the n prioritized records make one batch when n <= 20, and otherwise
\* ceil(n / 10) batches of 10 records, the last one possibly shorter, n in all.
C8_BatchSizes ==
    ai_pc # "idle" =>
        LET n == Len(enhance_records)
        IN  IF n <= BatchThreshold
            THEN batches = <<enhance_records>>
            ELSE /\ Len(batches) = (n + BatchSize - 1) \div BatchSize
                 /\ \A k \in 1..(Len(batches) - 1) : Len(batches[k]) = BatchSize
                 /\ Len(batches[Len(batches)]) \in 1..BatchSize
                 /\ SumOfSizes(batches, Len(batches)) = n

\* C9: no request of a batch exists before every request of the batch before is
\* done; once a request of a batch runs, every request of that batch has been
\* created; and enhance_records returns only when every request is done.
C9_BatchesInSequence ==
    /\ \A k \in 2..Len(batches) :
          (\E i \in BatchOf(k) : task[i] # "new") => \A j \in BatchOf(k - 1) : task[j] = "done"
    /\ \A k \in DOMAIN batches :
          (\E i \in BatchOf(k) : task[i] \in {"waiting", "done"}) =>
              \A j \in BatchOf(k) : task[j] # "new"
    /\ ai_pc = "returned" =>
          /\ batch_no = Len(batches)
          /\ \A k \in DOMAIN batches : \A i \in BatchOf(k) : task[i] = "done"

\* The second batch is in flight after a first batch that held real requests.
C9_Witness ==
    /\ ai_pc = "running"
    /\ batch_no = 2
    /\ \E i \in BatchOf(2) : task[i] = "waiting"
    /\ \E i \in BatchOf(2) : task[i] = "scheduled"
    /\ \E j \in BatchOf(1) : records[j].code_block /\ task[j] = "done"

\* C10: every construction returns the one instance; once it exists, no step
\* changes the instance, _should_run or _api_type; and while _should_run is false
\* enhance_records changes nothing.
C10_FirstCallWins ==
    /\ [](returned # 0 => (instance # 0 /\ returned = instance))
    /\ [][ /\ instance # 0 =>
                /\ instance' = instance
                /\ should_run' = should_run
                /\ api_type' = api_type
           /\ ~should_run' => runVars' = runVars ]_vars

\* Constructed first without a key, then again with one: still disabled.
C10_Witness ==
    /\ instance # 0
    /\ returned = instance
    /\ openai_api_key = ""
    /\ last_call # None
    /\ last_call.api_key = "sk-key"
    /\ ~should_run

(***************************************************************************)
(* Properties of the severity table                                        *)
(***************************************************************************)

TableLevels == { SeveritiesTable[i].level : i \in DOMAIN SeveritiesTable }

\* C5: the skip threshold has the greatest level of the table strictly below the
\* level of the soft-fail threshold, and is NONE (level 0) when there is none.
C5_SkipThresholdIsGreatestBelow ==
    skip_check_threshold # None =>
        LET level == Severities(soft_fail_threshold).level
            below == { l \in TableLevels : l < level }
        IN  IF below = {}
            THEN skip_check_threshold.level = 0 /\ skip_check_threshold.name = "NONE"
            ELSE skip_check_threshold.level = Max(below)

\* The skip threshold of an alias: MODERATE (level 2) gives LOW.
C5_Witness ==
    /\ soft_fail_threshold = "MODERATE"
    /\ skip_check_threshold # None
    /\ skip_check_threshold.name = "LOW"

====
